---------------------------- MODULE Spec2Model ----------------------------
(***************************************************************************)
(* Model of cross_domain_integration_engine.py: the data types the file    *)
(* defines (ModuleStatus, DomainCategory, CapabilitySignature,             *)
(* ModuleMetadata, IntegrationMessage) and, on top of them, the Registry   *)
(* Store and Capability Router the specification describes.                *)
(*                                                                         *)
(* Python's None is the string None below; a dict is a TLA+ record, and a  *)
(* dict argument that is None or empty is <<>>; a list is a sequence.      *)
(* Health scores are counted in quarters, so the float 1.0 is 4 and the    *)
(* range [0.0, 1.0] is 0..4.                                               *)
(***************************************************************************)
EXTENDS Integers, Sequences, FiniteSets, TLC

VARIABLES
    msgs,        \* every IntegrationMessage object constructed so far
    uuidCount,   \* how many uuid4() values have been drawn
    lastCall,    \* the last operation on a message and what it returned
    everFalse,   \* history: messages for which validate() has returned False
    records,     \* every ModuleMetadata object constructed so far
    registry,    \* Registry Store: the objects of records it holds
    regCall,     \* the last registry or record operation and its result
    handlerCalls,\* how often the capability handler has been invoked
    rejections,  \* per object of records: payloads the router rejected
    doc          \* the dictionary to_dict() produced, and what came back

msgVars == <<msgs, uuidCount, lastCall, everFalse>>

regVars == <<records, registry, regCall>>

routeVars == <<handlerCalls, rejections>>

vars == <<msgs, uuidCount, lastCall, everFalse, records, registry, regCall, handlerCalls, rejections, doc>>

None == "None"

\* Python truthiness of an Optional[str] value and of an Optional[dict] one.
Falsy(v) == v = None \/ v = ""

FalsyDict(d) == DOMAIN d = {}

(***************************************************************************)
(* Bounds of the model.                                                    *)
(***************************************************************************)
MaxMsgs == 2       \* IntegrationMessage objects constructed in one run
MaxErrors == 4     \* entries a message's error list may grow to
MaxRecords == 2    \* ModuleMetadata objects constructed in one run
MaxHandlerCalls == 6   \* handler invocations in one run

(***************************************************************************)
(* IntegrationMessage                                                      *)
(***************************************************************************)
\* str(uuid.uuid4()): the n-th value drawn.  uuid4 values are taken to be
\* fresh, and different from every identifier a caller writes by hand.
UuidStr == <<"u1", "u2", "u3", "u4", "u5", "u6">>

uuid4(n) == UuidStr[n]

\* Faulty variant: the default metadata starting the retry count at 1.
DefaultMetadataFromOne == [priority |-> "normal", retry_count |-> 1]

\* The metadata of a message built without one (created_at left out).
DefaultMetadata == [priority |-> "normal", retry_count |-> 0]

\* IntegrationMessage.__init__ ; n is the number of the next uuid4 draw.  The
\* payload is the set of keys it carries (None and {} are both the empty set);
\* context and metadata.created_at play no part in what is checked and are
\* left out.
IntegrationMessage(message_id, source_module, target_module, capability, payload, metadata, n) ==
    [ message_id    |-> IF Falsy(message_id) THEN uuid4(n) ELSE message_id,
      source_module |-> source_module,
      target_module |-> target_module,
      capability    |-> capability,
      payload       |-> payload,
      metadata      |-> IF FalsyDict(metadata) THEN DefaultMetadata ELSE metadata,
      errors        |-> <<>> ]

\* The entries one validate() call appends for message m.
\* Faulty variant: the second test written as elif.
MissingFieldsElif(m) ==
    IF Falsy(m.source_module) THEN <<"Missing source_module">>
    ELSE IF Falsy(m.capability) THEN <<"Missing capability">>
    ELSE <<>>

MissingFields(m) ==
    (IF Falsy(m.source_module) THEN <<"Missing source_module">> ELSE <<>>)
    \o (IF Falsy(m.capability) THEN <<"Missing capability">> ELSE <<>>)

\* Faulty variant: validate() starting from a fresh error list.
validateFresh(m) ==
    LET errs == MissingFields(m)
    IN  [msg |-> [m EXCEPT !.errors = errs], ok |-> Len(errs) = 0]

\* IntegrationMessage.validate: the message after the call and the value
\* returned.
validate(m) ==
    LET errs == m.errors \o MissingFields(m)
    IN  [msg |-> [m EXCEPT !.errors = errs], ok |-> Len(errs) = 0]

(***************************************************************************)
(* Operations on messages                                                  *)
(***************************************************************************)
MessageIdArgs == {None, "", "a", "b"}

SourceArgs == {None, "", "m1"}

CapabilityArgs == {None, "", "summarize"}

\* What an operation on message number msg left behind: whether it succeeded,
\* and for a route the failure, how the handler's invocations were to end,
\* the number of invocations, the retry_count of the message each was given,
\* and the number of registry lookups; for a construction, the optional
\* arguments given.
Call(op, msg, ok) == [op |-> op, msg |-> msg, ok |-> ok, result |-> None, outcomes |-> <<>>, calls |-> 0, attempts |-> <<>>, lookups |-> 0, given |-> {}]

NoCall == Call("none", 0, TRUE)

\* msg = IntegrationMessage(message_id=..., source_module=..., capability=...)
NewMessage(message_id, source_module, capability) ==
    /\ Len(msgs) < MaxMsgs
    /\ msgs' = Append(msgs, IntegrationMessage(message_id, source_module, None, capability, {}, <<>>, uuidCount + 1))
    /\ uuidCount' = IF Falsy(message_id) THEN uuidCount + 1 ELSE uuidCount
    /\ lastCall' = [Call("new", Len(msgs) + 1, TRUE) EXCEPT !.given = IF Falsy(message_id) THEN {} ELSE {"message_id"}]
    /\ UNCHANGED <<everFalse, regVars, routeVars, doc>>

\* msgs[i].validate()
Validate(i) ==
    \E r \in {validate(msgs[i])} :
        /\ Len(r.msg.errors) <= MaxErrors
        /\ msgs' = [msgs EXCEPT ![i] = r.msg]
        /\ lastCall' = Call("validate", i, r.ok)
        /\ everFalse' = IF r.ok THEN everFalse ELSE everFalse \cup {i}
        /\ UNCHANGED <<uuidCount, regVars, routeVars, doc>>

\* msgs[i].source_module = v : the attribute is a plain public one.
SetSourceModule(i, v) ==
    /\ msgs' = [msgs EXCEPT ![i].source_module = v]
    /\ lastCall' = Call("set", i, TRUE)
    /\ UNCHANGED <<uuidCount, everFalse, regVars, routeVars, doc>>

\* msgs[i].capability = v
SetCapability(i, v) ==
    /\ msgs' = [msgs EXCEPT ![i].capability = v]
    /\ lastCall' = Call("set", i, TRUE)
    /\ UNCHANGED <<uuidCount, everFalse, regVars, routeVars, doc>>

(***************************************************************************)
(* ModuleStatus, DomainCategory: an enum member is its name, and .value    *)
(* and the constructor Enum(value) are the two directions of the table.    *)
(***************************************************************************)
ModuleStatus == {"REGISTERED", "ACTIVE", "DEGRADED", "OFFLINE", "DEPRECATED", "ERROR"}

ModuleStatusValue(member) ==
    CASE member = "REGISTERED" -> "registered"
      [] member = "ACTIVE"     -> "active"
      [] member = "DEGRADED"   -> "degraded"
      [] member = "OFFLINE"    -> "offline"
      [] member = "DEPRECATED" -> "deprecated"
      [] member = "ERROR"      -> "error"

\* ModuleStatus(value): the member with that value.
ModuleStatusOf(value) == CHOOSE member \in ModuleStatus : ModuleStatusValue(member) = value

DomainCategory == {"DATA_PROCESSING", "NLP", "COMPUTER_VISION", "REINFORCEMENT_LEARNING", "AUTONOMOUS_PLANNING", "API_INTEGRATION", "STORAGE", "MONITORING", "UNKNOWN"}

DomainCategoryValue(member) ==
    CASE member = "DATA_PROCESSING"        -> "data_processing"
      [] member = "NLP"                    -> "natural_language_processing"
      [] member = "COMPUTER_VISION"        -> "computer_vision"
      [] member = "REINFORCEMENT_LEARNING" -> "reinforcement_learning"
      [] member = "AUTONOMOUS_PLANNING"    -> "autonomous_planning"
      [] member = "API_INTEGRATION"        -> "api_integration"
      [] member = "STORAGE"                -> "storage"
      [] member = "MONITORING"             -> "monitoring"
      [] member = "UNKNOWN"                -> "unknown"

DomainCategoryOf(value) == CHOOSE member \in DomainCategory : DomainCategoryValue(member) = value

(***************************************************************************)
(* CapabilitySignature, ModuleMetadata                                     *)
(***************************************************************************)
\* A datetime is [sec, us, tz]: the second, the microsecond, and the UTC
\* offset in minutes as <<offset>>, <<>> for a naive datetime.  An absent
\* Optional[datetime] (and a None among the values of a dict) is NoneDt.
NoneDt == [none |-> TRUE]

\* datetime.utcnow(): time does not advance in this model.
utcnow == [sec |-> 0, us |-> 0, tz |-> <<>>]

\* An argument the caller may leave out is <<>> when left out and <<v>>
\* when given; Arg is the value the dataclass then stores.
Arg(a, default) == IF a = <<>> THEN default ELSE a[1]

\* CapabilitySignature(name, input_schema, output_schema, description) with
\* the defaults of the remaining fields.  A schema is the set of its keys.
\* The field class tells an instance of a dataclass from the dict of its
\* fields: Python never finds the two equal.
CapabilitySignature(name, input_schema, output_schema, description) ==
    [ class |-> "CapabilitySignature",
      name |-> name, input_schema |-> input_schema, output_schema |-> output_schema,
      description |-> description, version |-> "1.0.0", requires_context |-> FALSE,
      timeout_seconds |-> 30, is_async |-> FALSE ]

FullHealth == 4    \* health_score: float = 1.0, in quarters

\* Faulty variant: last_heartbeat defaulting to the construction time, as created_at
\* and updated_at do.
DefaultLastHeartbeatNow == utcnow

\* last_heartbeat: Optional[datetime] = None
DefaultLastHeartbeat == NoneDt

\* The dataclass's generated __init__: no field is validated.
ModuleMetadata(module_id, module_name, domain, version, capabilities, dependencies, status, health_score, last_heartbeat, created_at, updated_at, endpoint, config_schema) ==
    [ class          |-> "ModuleMetadata",
      module_id      |-> module_id,
      module_name    |-> module_name,
      domain         |-> domain,
      version        |-> version,
      capabilities   |-> capabilities,
      dependencies   |-> Arg(dependencies, <<>>),
      status         |-> Arg(status, "REGISTERED"),
      health_score   |-> Arg(health_score, FullHealth),
      last_heartbeat |-> Arg(last_heartbeat, DefaultLastHeartbeat),
      created_at     |-> Arg(created_at, utcnow),
      updated_at     |-> Arg(updated_at, utcnow),
      endpoint       |-> Arg(endpoint, None),
      config_schema  |-> Arg(config_schema, <<>>) ]

(***************************************************************************)
(* Registry Store (specification section 4.1) and lifecycle (4.3)          *)
(***************************************************************************)
ModuleIds == {"m1", "m2"}

\* The objects the store holds under a module identity.
Held(reg, recs, id) == {i \in reg : recs[i].module_id = id}

\* InvalidSignature: a capability name used twice, or an empty schema.
InvalidSignature(caps) ==
    \/ \E a, b \in 1..Len(caps) : a # b /\ caps[a].name = caps[b].name
    \/ \E a \in 1..Len(caps) : caps[a].input_schema = {} \/ caps[a].output_schema = {}

\* Faulty variant: register without the test for an identity already present.
registerUnchecked(reg, recs, i) ==
    IF InvalidSignature(recs[i].capabilities)
    THEN [registry |-> reg, records |-> recs, ok |-> FALSE, result |-> "InvalidSignature"]
    ELSE [registry |-> reg \cup {i}, records |-> [recs EXCEPT ![i].status = "REGISTERED"], ok |-> TRUE, result |-> recs[i].module_id]

\* register(record): the store and the objects afterwards, and the result
\* (the identity, or the failure).
register(reg, recs, i) ==
    IF Held(reg, recs, recs[i].module_id) # {}
    THEN [registry |-> reg, records |-> recs, ok |-> FALSE, result |-> "DuplicateModule"]
    ELSE IF InvalidSignature(recs[i].capabilities)
    THEN [registry |-> reg, records |-> recs, ok |-> FALSE, result |-> "InvalidSignature"]
    ELSE [registry |-> reg \cup {i}, records |-> [recs EXCEPT ![i].status = "REGISTERED"], ok |-> TRUE, result |-> recs[i].module_id]

\* The transition table of section 4.3.
LegalTransition(old, new) ==
    \/ old = "REGISTERED" /\ new = "ACTIVE"
    \/ old = "ACTIVE" /\ new = "DEGRADED"
    \/ old = "DEGRADED" /\ new = "ACTIVE"
    \/ old = "DEGRADED" /\ new = "OFFLINE"
    \/ old = "OFFLINE" /\ new = "ACTIVE"
    \/ new = "ERROR"
    \/ old = "ERROR" /\ new = "REGISTERED"
    \/ new = "DEPRECATED"

HealthThreshold == 2    \* health-degradation threshold, default 0.5

\* The status updateHealth re-evaluates to once a heartbeat has arrived and
\* the score is h.
Reevaluate(status, h) ==
    CASE status = "REGISTERED" -> "ACTIVE"
      [] status = "ACTIVE" /\ h < HealthThreshold -> "DEGRADED"
      [] status = "DEGRADED" /\ h >= HealthThreshold -> "ACTIVE"
      [] status = "OFFLINE" -> "ACTIVE"
      [] OTHER -> status

\* The score after a delta: a delta that would leave [0.0, 1.0] is rejected.
ApplyDelta(h, delta) == IF h + delta \in 0..FullHealth THEN h + delta ELSE h

HeartbeatArgs == {<<>>, <<[sec |-> 7, us |-> 0, tz |-> <<>>]>>}

Summarize == CapabilitySignature("summarize", {"text"}, {"summary"}, "d")

CapabilityLists == {<<Summarize>>, <<Summarize, Summarize>>, <<CapabilitySignature("noop", {}, {"out"}, "d")>>}

NoRegCall == [op |-> "none", ref |-> 0, id |-> None, ok |-> TRUE, result |-> None, given |-> {}]

\* record = ModuleMetadata(module_id=..., capabilities=..., status=...,
\*                         health_score=..., last_heartbeat=...)
NewRecord(module_id, capabilities, status, health_score, last_heartbeat) ==
    /\ Len(records) < MaxRecords
    /\ records' = Append(records, ModuleMetadata(module_id, "n", "NLP", "1", capabilities, <<>>, status, health_score, last_heartbeat, <<>>, <<>>, <<>>, <<>>))
    /\ regCall' = [op |-> "new", ref |-> Len(records) + 1, id |-> module_id, ok |-> TRUE, result |-> None,
                   given |-> {f \in {"status", "health_score", "last_heartbeat"} :
                                \/ f = "status" /\ status # <<>>
                                \/ f = "health_score" /\ health_score # <<>>
                                \/ f = "last_heartbeat" /\ last_heartbeat # <<>>}]
    /\ UNCHANGED <<registry, msgVars, routeVars, doc>>

\* store.register(records[i])
Register(i) ==
    \E r \in {register(registry, records, i)} :
        /\ registry' = r.registry
        /\ records' = r.records
        /\ regCall' = [op |-> "register", ref |-> i, id |-> records[i].module_id, ok |-> r.ok, result |-> r.result, given |-> {}]
        /\ UNCHANGED <<msgVars, routeVars, doc>>

\* store.deregister(id)
Deregister(id) ==
    /\ registry' = registry \ Held(registry, records, id)
    /\ regCall' = [op |-> "deregister", ref |-> 0, id |-> id, ok |-> Held(registry, records, id) # {},
                   result |-> IF Held(registry, records, id) = {} THEN "NotFound" ELSE None, given |-> {}]
    /\ UNCHANGED <<records, msgVars, routeVars, doc>>

\* store.setStatus(id, newStatus, reason)
SetStatus(id, newStatus) ==
    LET held == Held(registry, records, id)
        ok == held # {} /\ \A i \in held : LegalTransition(records[i].status, newStatus)
    IN  /\ records' = [i \in DOMAIN records |-> IF ok /\ i \in held THEN [records[i] EXCEPT !.status = newStatus] ELSE records[i]]
        /\ regCall' = [op |-> "setStatus", ref |-> 0, id |-> id, ok |-> ok,
                       result |-> IF held = {} THEN "NotFound" ELSE IF ok THEN None ELSE "IllegalTransition", given |-> {}]
        /\ UNCHANGED <<registry, msgVars, routeVars, doc>>

\* store.updateHealth(id, heartbeatTimestamp, healthDelta)
UpdateHealth(id, ts, delta) ==
    LET held == Held(registry, records, id)
        upd(r) == LET h == ApplyDelta(r.health_score, delta)
                  IN  [r EXCEPT !.health_score = h, !.last_heartbeat = ts, !.status = Reevaluate(r.status, h)]
    IN  /\ records' = [i \in DOMAIN records |-> IF i \in held THEN upd(records[i]) ELSE records[i]]
        /\ regCall' = [op |-> "updateHealth", ref |-> 0, id |-> id, ok |-> held # {},
                       result |-> IF held = {} THEN "NotFound" ELSE None, given |-> {}]
        /\ UNCHANGED <<registry, msgVars, routeVars, doc>>

\* records[i].status = st : the dataclass is not frozen, and the object the
\* caller built (or got back from the store) is the one the store holds.
WriteStatus(i, st) ==
    /\ records' = [records EXCEPT ![i].status = st]
    /\ regCall' = [op |-> "write status", ref |-> i, id |-> records[i].module_id, ok |-> TRUE, result |-> None, given |-> {}]
    /\ UNCHANGED <<registry, msgVars, routeVars, doc>>

\* records[i].health_score = h
WriteHealthScore(i, h) ==
    /\ records' = [records EXCEPT ![i].health_score = h]
    /\ regCall' = [op |-> "write health_score", ref |-> i, id |-> records[i].module_id, ok |-> TRUE, result |-> None, given |-> {}]
    /\ UNCHANGED <<registry, msgVars, routeVars, doc>>

(***************************************************************************)
(* ModuleMetadata.to_dict and from_dict                                    *)
(***************************************************************************)
\* A str is the sequence of its characters.
Digits == <<"0", "1", "2", "3", "4", "5", "6", "7", "8", "9">>

RECURSIVE Pad(_, _)
\* n in decimal, zero-padded to width characters.
Pad(n, width) == IF width = 0 THEN <<>> ELSE Pad(n \div 10, width - 1) \o <<Digits[(n % 10) + 1]>>

DigitValue(c) == CHOOSE d \in 0..9 : Digits[d + 1] = c

RECURSIVE ToInt(_)
ToInt(str) == IF str = <<>> THEN 0 ELSE 10 * ToInt(SubSeq(str, 1, Len(str) - 1)) + DigitValue(str[Len(str)])

Abs(n) == IF n < 0 THEN -n ELSE n

\* datetime.isoformat(): the seconds, the microseconds when they are not
\* zero, and the UTC offset of an aware datetime.  (The date, the hour and
\* the minute are written and read back the way the second is.)
isoformat(dt) ==
    Pad(dt.sec, 2)
    \o (IF dt.us # 0 THEN <<".">> \o Pad(dt.us, 6) ELSE <<>>)
    \o (IF dt.tz = <<>> THEN <<>>
        ELSE <<IF dt.tz[1] < 0 THEN "-" ELSE "+">> \o Pad(Abs(dt.tz[1]) \div 60, 2) \o <<":">> \o Pad(Abs(dt.tz[1]) % 60, 2))

\* datetime.fromisoformat(str)
fromisoformat(str) ==
    LET frac == Len(str) > 2 /\ str[3] = "."
        rest == IF frac THEN SubSeq(str, 10, Len(str)) ELSE SubSeq(str, 3, Len(str))
        off  == 60 * ToInt(SubSeq(rest, 2, 3)) + ToInt(SubSeq(rest, 5, 6))
    IN  [ sec |-> ToInt(SubSeq(str, 1, 2)),
          us  |-> IF frac THEN ToInt(SubSeq(str, 4, 9)) ELSE 0,
          tz  |-> IF rest = <<>> THEN <<>> ELSE <<IF rest[1] = "-" THEN -off ELSE off>> ]

\* dataclasses.asdict on an object without nested dataclasses: the dict of
\* its fields.
asdict(obj) == [f \in DOMAIN obj \ {"class"} |-> obj[f]]

\* ModuleMetadata.to_dict
to_dict(self) ==
    LET data == [asdict(self) EXCEPT !.capabilities = [k \in DOMAIN self.capabilities |-> asdict(self.capabilities[k])]]
    IN  [data EXCEPT
           !.domain = DomainCategoryValue(self.domain),
           !.status = ModuleStatusValue(self.status),
           !.capabilities = [k \in DOMAIN self.capabilities |-> asdict(self.capabilities[k])],
           !.created_at = isoformat(self.created_at),
           !.updated_at = isoformat(self.updated_at),
           !.last_heartbeat = IF self.last_heartbeat # NoneDt THEN isoformat(self.last_heartbeat) ELSE data.last_heartbeat]

\* CapabilitySignature(**cap)
CapabilitySignatureFromDict(cap) == [f \in DOMAIN cap \cup {"class"} |-> IF f = "class" THEN "CapabilitySignature" ELSE cap[f]]

\* The date fields from_dict converts: those present and not None.
ParseDate(v) == IF v # NoneDt /\ v # <<>> THEN fromisoformat(v) ELSE v

\* Faulty variant: from_dict converting created_at and updated_at only.
from_dictTwoDates(data) ==
    [f \in DOMAIN data \cup {"class"} |->
        CASE f = "class" -> "ModuleMetadata"
          [] f = "domain" -> DomainCategoryOf(data.domain)
          [] f = "status" -> ModuleStatusOf(data.status)
          [] f = "capabilities" -> [k \in DOMAIN data.capabilities |-> CapabilitySignatureFromDict(data.capabilities[k])]
          [] f \in {"created_at", "updated_at"} -> ParseDate(data[f])
          [] OTHER -> data[f]]

\* ModuleMetadata.from_dict
from_dict(data) ==
    [f \in DOMAIN data \cup {"class"} |->
        CASE f = "class" -> "ModuleMetadata"
          [] f = "domain" -> DomainCategoryOf(data.domain)
          [] f = "status" -> ModuleStatusOf(data.status)
          [] f = "capabilities" -> [k \in DOMAIN data.capabilities |-> CapabilitySignatureFromDict(data.capabilities[k])]
          [] f \in {"created_at", "updated_at", "last_heartbeat"} -> ParseDate(data[f])
          [] OTHER -> data[f]]

Datetimes == [sec : {0, 59}, us : {0, 5, 120000}, tz : {<<>>, <<0>>, <<330>>, <<-300>>}]

\* data = records[i].to_dict()
ToDict(i) ==
    /\ doc.state = "none"
    /\ doc' = [state |-> "dict", data |-> to_dict(records[i])]
    /\ regCall' = [op |-> "to_dict", ref |-> i, id |-> records[i].module_id, ok |-> TRUE, result |-> None, given |-> {}]
    /\ UNCHANGED <<records, registry, msgVars, routeVars>>

\* ModuleMetadata.from_dict(data)
FromDict ==
    /\ doc.state = "dict"
    /\ records' = Append(records, from_dict(doc.data))
    /\ doc' = [doc EXCEPT !.state = "restored"]
    /\ regCall' = [op |-> "from_dict", ref |-> Len(records) + 1, id |-> doc.data.module_id, ok |-> TRUE, result |-> None, given |-> {}]
    /\ UNCHANGED <<registry, msgVars, routeVars>>

(***************************************************************************)
(* Capability Router (specification section 4.2)                           *)
(***************************************************************************)
MaxRetries == 2    \* max retry attempts, default 2 additional attempts

\* What one handler invocation may end in; the first two are transient.
Outcomes == {"ok", "timeout", "unavailable", "error"}

Transient(o) == o \in {"timeout", "unavailable"}

FailureOf(o) ==
    CASE o = "timeout" -> "TimeoutError"
      [] o = "unavailable" -> "TransportUnavailable"
      [] OTHER -> "ProviderError"

\* findByCapability(capabilityName): the ACTIVE or DEGRADED modules exposing
\* it, and the first of them by descending health score, then by
\* registration order (the order of construction here).
Providers(reg, recs, capability) ==
    {i \in reg : /\ recs[i].status \in {"ACTIVE", "DEGRADED"}
                 /\ \E k \in DOMAIN recs[i].capabilities : recs[i].capabilities[k].name = capability}

FirstProvider(reg, recs, capability) ==
    CHOOSE i \in Providers(reg, recs, capability) :
        \A j \in Providers(reg, recs, capability) :
            \/ recs[i].health_score > recs[j].health_score
            \/ recs[i].health_score = recs[j].health_score /\ i <= j

\* The handler invocations of one route: how many there are and how the
\* last one ended, when the k-th invocation ends in outcomes[k].
RECURSIVE Invocations(_, _)
Invocations(outcomes, k) ==
    IF Transient(outcomes[k]) /\ k <= MaxRetries
    THEN Invocations(outcomes, k + 1)
    ELSE [calls |-> k, last |-> outcomes[k]]

\* A failed route: the failure is attached to the message's error list.
Failed(m, recs, rej, result, calls, attempts, lookups) ==
    [msg |-> [m EXCEPT !.errors = Append(m.errors, result)], records |-> recs, rejections |-> rej,
     ok |-> FALSE, result |-> result, calls |-> calls, attempts |-> attempts, lookups |-> lookups]

\* The target's record after a failed invocation: the health penalty, a
\* score that fell below the threshold, and the ERROR transition when the
\* failure counts as fatal.
Penalised(r, penalty, fatal) ==
    LET h == ApplyDelta(r.health_score, -penalty)
    IN  [r EXCEPT !.health_score = h,
                  !.status = IF fatal THEN "ERROR"
                             ELSE IF r.status = "ACTIVE" /\ h < HealthThreshold THEN "DEGRADED"
                             ELSE r.status]

\* Faulty variant: the router dispatching before it has validated the payload.
routeUnvalidated(m, reg, recs, rej, outcomes, penalty, fatal) ==
    LET v == validate(m)
        targets == IF Falsy(m.target_module)
                   THEN (IF Providers(reg, recs, m.capability) = {} THEN {} ELSE {FirstProvider(reg, recs, m.capability)})
                   ELSE Held(reg, recs, m.target_module)
        t == CHOOSE i \in targets : TRUE
        inv == Invocations(outcomes, 1)
        attempts == [k \in 1..inv.calls |-> m.metadata.retry_count + (k - 1)]
    IN  IF ~v.ok THEN [msg |-> v.msg, records |-> recs, rejections |-> rej, ok |-> FALSE, result |-> "ValidationError", calls |-> 0, attempts |-> <<>>, lookups |-> 0]
        ELSE IF targets = {} THEN Failed(m, recs, rej, IF Falsy(m.target_module) THEN "NoCapabilityProvider" ELSE "NotFound", 0, <<>>, 1)
        ELSE IF inv.last = "ok"
        THEN [msg |-> m, records |-> [recs EXCEPT ![t].status = IF @ = "REGISTERED" THEN "ACTIVE" ELSE @], rejections |-> rej,
              ok |-> TRUE, result |-> None, calls |-> inv.calls, attempts |-> attempts, lookups |-> 1]
        ELSE Failed(m, [recs EXCEPT ![t] = Penalised(@, penalty, fatal)], rej, FailureOf(inv.last), inv.calls, attempts, 1)

\* route(message): the message, the records and the rejection counters
\* afterwards, and the result.
route(m, reg, recs, rej, outcomes, penalty, fatal) ==
    LET v == validate(m)
        targets == IF Falsy(m.target_module)
                   THEN (IF Providers(reg, recs, m.capability) = {} THEN {} ELSE {FirstProvider(reg, recs, m.capability)})
                   ELSE Held(reg, recs, m.target_module)
        t == CHOOSE i \in targets : TRUE
        sigs == {k \in DOMAIN recs[t].capabilities : recs[t].capabilities[k].name = m.capability}
        sig == recs[t].capabilities[CHOOSE k \in sigs : TRUE]
        inv == Invocations(outcomes, 1)
        attempts == [k \in 1..inv.calls |-> m.metadata.retry_count + (k - 1)]
    IN  IF ~v.ok THEN [msg |-> v.msg, records |-> recs, rejections |-> rej, ok |-> FALSE, result |-> "ValidationError", calls |-> 0, attempts |-> <<>>, lookups |-> 0]
        ELSE IF targets = {} THEN Failed(m, recs, rej, IF Falsy(m.target_module) THEN "NoCapabilityProvider" ELSE "NotFound", 0, <<>>, 1)
        ELSE IF sigs = {} THEN Failed(m, recs, rej, "UnknownCapability", 0, <<>>, 1)
        ELSE IF ~(sig.input_schema \subseteq m.payload)
        THEN Failed(m, recs, [rej EXCEPT ![recs[t].module_id] = @ + 1], "SchemaMismatch", 0, <<>>, 1)
        ELSE IF inv.last = "ok"
        THEN [msg |-> m, records |-> [recs EXCEPT ![t].status = IF @ = "REGISTERED" THEN "ACTIVE" ELSE @], rejections |-> rej,
              ok |-> TRUE, result |-> None, calls |-> inv.calls, attempts |-> attempts, lookups |-> 1]
        ELSE Failed(m, [recs EXCEPT ![t] = Penalised(@, penalty, fatal)], rej, FailureOf(inv.last), inv.calls, attempts, 1)

\* router.route(msgs[i]), the k-th handler invocation ending in outcomes[k].
\* The inputs a route does not come to use are fixed: the outcomes when the
\* handler is not reached, the penalty when the handler succeeds.
Route(i, outcomes, penalty, fatal) ==
    \E r \in {route(msgs[i], registry, records, rejections, outcomes, penalty, fatal)} :
        /\ r.calls = 0 => \A k \in DOMAIN outcomes : outcomes[k] = "ok"
        /\ r.ok \/ r.calls = 0 => penalty = 1 /\ ~fatal
        /\ Len(r.msg.errors) <= MaxErrors
        /\ msgs' = [msgs EXCEPT ![i] = r.msg]
        /\ records' = r.records
        /\ rejections' = r.rejections
        /\ handlerCalls + r.calls <= MaxHandlerCalls
        /\ handlerCalls' = handlerCalls + r.calls
        /\ lastCall' = [Call("route", i, r.ok) EXCEPT !.result = r.result, !.outcomes = outcomes, !.calls = r.calls, !.attempts = r.attempts, !.lookups = r.lookups]
        /\ everFalse' = IF r.result = "ValidationError" THEN everFalse \cup {i} ELSE everFalse
        /\ UNCHANGED <<uuidCount, registry, regCall, doc>>

(***************************************************************************)
(* Specifications                                                          *)
(***************************************************************************)
NoDoc == [state |-> "none"]

MsgIdle == msgs = <<>> /\ uuidCount = 0 /\ lastCall = NoCall /\ everFalse = {}

RegIdle == records = <<>> /\ registry = {} /\ regCall = NoRegCall

RouteIdle == handlerCalls = 0 /\ rejections = [id \in ModuleIds |-> 0]

\* Message construction: any number of messages up to MaxMsgs.
InitIds == MsgIdle /\ RegIdle /\ RouteIdle /\ doc = NoDoc

NextIds ==
    \E message_id \in MessageIdArgs, source_module \in SourceArgs, capability \in CapabilityArgs :
        NewMessage(message_id, source_module, capability)

SpecIds == InitIds /\ [][NextIds]_vars

\* One message, built with any arguments, then validated and written to.
InitValidate ==
    /\ \E message_id \in MessageIdArgs, source_module \in SourceArgs, capability \in CapabilityArgs :
          msgs = <<IntegrationMessage(message_id, source_module, None, capability, {}, <<>>, 1)>>
    /\ uuidCount = 1
    /\ lastCall = NoCall
    /\ everFalse = {}
    /\ RegIdle /\ RouteIdle /\ doc = NoDoc

NextValidate ==
    \/ \E i \in DOMAIN msgs : Validate(i)
    \/ \E i \in DOMAIN msgs, v \in SourceArgs : SetSourceModule(i, v)
    \/ \E i \in DOMAIN msgs, v \in CapabilityArgs : SetCapability(i, v)

SpecValidate == InitValidate /\ [][NextValidate]_vars

\* The Registry Store under register and deregister.
InitReg == MsgIdle /\ RegIdle /\ RouteIdle /\ doc = NoDoc

NextReg ==
    \/ \E module_id \in ModuleIds, capabilities \in CapabilityLists, status \in {<<>>, <<"ACTIVE">>, <<"ERROR">>}, last_heartbeat \in HeartbeatArgs :
          NewRecord(module_id, capabilities, status, <<>>, last_heartbeat)
    \/ \E i \in DOMAIN records : Register(i)
    \/ \E id \in ModuleIds : Deregister(id)

SpecReg == InitReg /\ [][NextReg]_vars

\* Module records through their life under one identity: every store
\* operation, and the writes the dataclass allows.
HealthArgs == {<<>>, <<FullHealth + 1>>}

HealthDeltas == {-2, -1, 1}

InitLife == MsgIdle /\ RegIdle /\ RouteIdle /\ doc = NoDoc

NextLife ==
    \/ \E health_score \in HealthArgs :
          NewRecord("m1", <<Summarize>>, <<>>, health_score, <<>>)
    \/ \E i \in DOMAIN records : Register(i)
    \/ Deregister("m1")
    \/ \E st \in ModuleStatus : SetStatus("m1", st)
    \/ \E ts \in HeartbeatArgs \ {<<>>}, delta \in HealthDeltas : UpdateHealth("m1", ts[1], delta)
    \/ \E i \in DOMAIN records, st \in ModuleStatus : WriteStatus(i, st)
    \/ \E i \in DOMAIN records, h \in {-1, FullHealth + 1} : WriteHealthScore(i, h)

SpecLife == InitLife /\ [][NextLife]_vars

\* to_dict and from_dict on one record built with any field values.
InitRoundTrip ==
    /\ \E domain \in DomainCategory, status \in ModuleStatus, capabilities \in CapabilityLists \cup {<<>>},
          last_heartbeat \in {<<>>} \cup {<<dt>> : dt \in Datetimes},
          created_at \in {<<>>, <<[sec |-> 59, us |-> 120000, tz |-> <<>>]>>},
          dependencies \in {<<>>, <<<<"m2">>>>}, config_schema \in {<<>>, <<[mode |-> "fast"]>>} :
          records = <<ModuleMetadata("m1", "n", domain, "1", capabilities, dependencies, <<status>>, <<>>, last_heartbeat, created_at, <<>>, <<"ep">>, config_schema)>>
    /\ registry = {} /\ regCall = NoRegCall
    /\ MsgIdle /\ RouteIdle /\ doc = NoDoc

NextRoundTrip ==
    \/ ToDict(1)
    \/ FromDict

SpecRoundTrip == InitRoundTrip /\ [][NextRoundTrip]_vars

\* The router: one message built with any arguments, against a store
\* holding m1, or m1 and m2, both exposing summarize.
Translate == CapabilitySignature("translate", {"text", "lang"}, {"text"}, "d")

\* outcomes with nothing but ok after the invocation that ends the route
CanonicalOutcomes ==
    {o \in [1..(MaxRetries + 1) -> Outcomes] :
        \A k \in 1..MaxRetries : ~Transient(o[k]) => \A j \in (k + 1)..(MaxRetries + 1) : o[j] = "ok"}

InitRoute ==
    /\ \E source_module \in {None, "m0"}, target_module \in {None, "m1", "m9"}, capability \in {None, "summarize", "translate"},
          payload \in {{}, {"text"}}, metadata \in {<<>>, [priority |-> "high", retry_count |-> 1]} :
          /\ msgs = <<IntegrationMessage(None, source_module, target_module, capability, payload, metadata, 1)>>
          /\ lastCall = [Call("new", 1, TRUE) EXCEPT !.given = IF metadata = <<>> THEN {} ELSE {"metadata"}]
    /\ uuidCount = 1
    /\ everFalse = {}
    /\ \E s1 \in {"REGISTERED", "ACTIVE"}, h1 \in {1, FullHealth}, h2 \in {HealthThreshold, FullHealth} :
          records = << ModuleMetadata("m1", "n", "NLP", "1", <<Summarize>>, <<>>, <<s1>>, <<h1>>, <<>>, <<>>, <<>>, <<>>, <<>>),
                       ModuleMetadata("m2", "n", "NLP", "1", <<Summarize, Translate>>, <<>>, <<"ACTIVE">>, <<h2>>, <<>>, <<>>, <<>>, <<>>, <<>>) >>
    /\ registry \in {{1}, {1, 2}}
    /\ regCall = NoRegCall
    /\ RouteIdle /\ doc = NoDoc

NextRoute ==
    \/ \E i \in DOMAIN msgs : Validate(i)
    \/ \E i \in DOMAIN msgs, outcomes \in CanonicalOutcomes, penalty \in {1, 2}, fatal \in BOOLEAN : Route(i, outcomes, penalty, fatal)

SpecRoute == InitRoute /\ [][NextRoute]_vars

(***************************************************************************)
(* Claims                                                                  *)
(***************************************************************************)
IsPrefix(a, b) == Len(a) <= Len(b) /\ SubSeq(b, 1, Len(a)) = a

\* The number of required fields message m lacks.
MissingCount(m) == (IF Falsy(m.source_module) THEN 1 ELSE 0) + (IF Falsy(m.capability) THEN 1 ELSE 0)

\* C2 (as claimed): the status of a module record only ever changes along a
\* transition of the table of section 4.3; there is no way to overwrite it
\* directly.
C2_OnlyListedTransitions ==
    [][\A i \in DOMAIN records :
         records'[i].status # records[i].status => LegalTransition(records[i].status, records'[i].status)]_vars

\* C3: the store never holds two records with the same module_id, and a
\* register of an identity already present fails with DuplicateModule and
\* leaves the store and every record as they were.
C3_UniqueModuleId ==
    /\ [](\A i, j \in registry : records[i].module_id = records[j].module_id => i = j)
    /\ [][(regCall'.op = "register" /\ Held(registry, records, regCall'.id) # {})
            => (regCall'.result = "DuplicateModule" /\ ~regCall'.ok /\ registry' = registry /\ records' = records)]_vars

\* C3 witness: a register has just failed with DuplicateModule against a
\* different object held under the same identity.
C3_Witness ==
    /\ regCall.op = "register" /\ regCall.result = "DuplicateModule"
    /\ \E j \in registry : j # regCall.ref /\ records[j].module_id = regCall.id

\* C4 (as claimed): every module record's health_score is within [0.0, 1.0]
\* in every state, right after construction included.
C4_HealthScoreInRange == \A i \in DOMAIN records : records[i].health_score \in 0..FullHealth

C8_UniqueMessageId ==
    /\ \A i \in DOMAIN msgs : ~Falsy(msgs[i].message_id)
    /\ \A i, j \in DOMAIN msgs : i # j => msgs[i].message_id # msgs[j].message_id

\* C10: validate() only appends to the error list, one entry per missing
\* field each time it is called, and returns true exactly when the list is
\* empty afterwards; so once it has returned false for a message it returns
\* false on every later call, whatever is written to the fields in between.
C10_ValidateOnlyAppends ==
    [][\A i \in DOMAIN msgs :
         /\ IsPrefix(msgs[i].errors, msgs'[i].errors)
         /\ (lastCall'.op = "validate" /\ lastCall'.msg = i)
              => /\ lastCall'.ok = (msgs'[i].errors = <<>>)
                 /\ Len(msgs'[i].errors) = Len(msgs[i].errors) + MissingCount(msgs[i])
                 /\ (i \in everFalse => ~lastCall'.ok)]_vars

\* C10 witness: validate() has just returned false for a message whose
\* source_module and capability are both set, after a first failing call on
\* it left two entries behind.
C10_Witness ==
    /\ lastCall.op = "validate" /\ ~lastCall.ok
    /\ ~Falsy(msgs[lastCall.msg].source_module) /\ ~Falsy(msgs[lastCall.msg].capability)
    /\ Len(msgs[lastCall.msg].errors) = 2

\* C9: from_dict(m.to_dict()) is a record equal to m field by field, for any
\* domain, status, list of capabilities and last_heartbeat, and to_dict
\* leaves m as it was.
C9_RoundTrip ==
    /\ [](doc.state = "restored" => records[2] = records[1])
    /\ [][doc'.state = "dict" => records'[1] = records[1]]_vars

\* C9 witness: a record with a last_heartbeat carrying microseconds and a
\* UTC offset, and with a capability, has been restored from its dictionary.
C9_Witness ==
    /\ doc.state = "restored"
    /\ records[1].last_heartbeat # NoneDt
    /\ records[1].last_heartbeat.us # 0 /\ records[1].last_heartbeat.tz # <<>>
    /\ records[1].capabilities # <<>>
    /\ doc.data.status = "degraded"

\* The records the router would take message m to, and whether m's payload
\* violates the input schema of the capability m names on one of them.
TargetsOf(m) ==
    IF Falsy(m.target_module)
    THEN (IF Providers(registry, records, m.capability) = {} THEN {} ELSE {FirstProvider(registry, records, m.capability)})
    ELSE Held(registry, records, m.target_module)

PayloadViolates(m) ==
    \E t \in TargetsOf(m) : \E k \in DOMAIN records[t].capabilities :
        /\ records[t].capabilities[k].name = m.capability
        /\ ~(records[t].capabilities[k].input_schema \subseteq m.payload)

AllTransient(outcomes) == outcomes # <<>> /\ \A k \in DOMAIN outcomes : Transient(outcomes[k])

\* C1: a validate() or a route of a message whose source_module or
\* capability is absent fails (route with ValidationError), appends one
\* entry to the message's error list per missing field, and neither looks
\* into nor changes the registry.
C1_MissingFieldFailsValidation ==
    [][\A i \in DOMAIN msgs :
         (lastCall'.op \in {"validate", "route"} /\ lastCall'.msg = i /\ MissingCount(msgs[i]) > 0)
           => /\ ~lastCall'.ok
              /\ lastCall'.op = "route" => lastCall'.result = "ValidationError"
              /\ Len(msgs'[i].errors) = Len(msgs[i].errors) + MissingCount(msgs[i])
              /\ IsPrefix(msgs[i].errors, msgs'[i].errors)
              /\ Falsy(msgs[i].source_module) => msgs'[i].errors[Len(msgs[i].errors) + 1] = "Missing source_module"
              /\ Falsy(msgs[i].capability) => msgs'[i].errors[Len(msgs'[i].errors)] = "Missing capability"
              /\ lastCall'.lookups = 0 /\ lastCall'.calls = 0
              /\ UNCHANGED <<registry, records, rejections, handlerCalls>>]_vars

\* C1 witness: a route of a message with neither source_module nor
\* capability has just failed with ValidationError, leaving two entries.
C1_Witness ==
    /\ lastCall.op = "route" /\ lastCall.result = "ValidationError"
    /\ msgs[lastCall.msg].errors = <<"Missing source_module", "Missing capability">>

\* C5 (as claimed): a route of a message whose payload violates the input
\* schema of its target's capability returns SchemaMismatch without
\* invoking the handler.
C5_SchemaMismatchAlways ==
    [][\A i \in DOMAIN msgs :
         (lastCall'.op = "route" /\ lastCall'.msg = i /\ PayloadViolates(msgs[i]))
           => (lastCall'.result = "SchemaMismatch" /\ lastCall'.calls = 0 /\ handlerCalls' = handlerCalls)]_vars

\* C5 (amended): a route of a message that passes validation (source_module
\* and capability present, error list empty) and whose payload violates the
\* input schema of its target's capability returns SchemaMismatch; whether
\* or not the message passes validation, the handler is not invoked for it,
\* and nothing is retried.
C5_SchemaMismatchNeverDispatched ==
    [][\A i \in DOMAIN msgs :
         (lastCall'.op = "route" /\ lastCall'.msg = i /\ PayloadViolates(msgs[i]))
           => /\ (MissingCount(msgs[i]) = 0 /\ msgs[i].errors = <<>>) => lastCall'.result = "SchemaMismatch"
              /\ ~lastCall'.ok
              /\ lastCall'.calls = 0 /\ lastCall'.attempts = <<>> /\ handlerCalls' = handlerCalls]_vars

\* C5 witness: a route has just returned SchemaMismatch and counted the
\* rejection, with no handler invocation so far.
C5_Witness ==
    /\ lastCall.op = "route" /\ lastCall.result = "SchemaMismatch"
    /\ handlerCalls = 0
    /\ \E id \in ModuleIds : rejections[id] = 1

\* C6 (as claimed): when every invocation ends in a transient failure, one
\* route invokes the handler exactly 1 + MaxRetries times and fails, and the
\* invocations get messages with retry_count 0, 1, ... in turn.
C6_RetriesCountFromZero ==
    (lastCall.op = "route" /\ lastCall.calls > 0 /\ AllTransient(lastCall.outcomes))
        => /\ lastCall.calls = 1 + MaxRetries /\ ~lastCall.ok
           /\ lastCall.attempts = [k \in 1..(1 + MaxRetries) |-> k - 1]

\* C6 (amended): when every invocation ends in a transient failure, one
\* route invokes the handler exactly 1 + MaxRetries times and fails; each
\* retry gets a message whose retry_count is one higher than the previous
\* attempt's, starting from the retry_count of the original message, which
\* is 0 when the message was built without a metadata argument and which a
\* route does not change.
C6_RetriesCountFromOriginal ==
    /\ []((lastCall.op = "route" /\ lastCall.calls > 0 /\ AllTransient(lastCall.outcomes))
            => /\ lastCall.calls = 1 + MaxRetries /\ ~lastCall.ok
               /\ lastCall.attempts[1] = msgs[lastCall.msg].metadata.retry_count
               /\ \A k \in 2..lastCall.calls : lastCall.attempts[k] = lastCall.attempts[k - 1] + 1)
    /\ []((lastCall.op = "new" /\ "metadata" \notin lastCall.given) => msgs[lastCall.msg].metadata.retry_count = 0)
    /\ [][\A i \in DOMAIN msgs : msgs'[i].metadata = msgs[i].metadata]_vars

\* C6 witness: three invocations, all timed out, of a message built with
\* retry_count 1: they were given retry counts 1, 2 and 3.
C6_Witness ==
    /\ lastCall.op = "route" /\ lastCall.outcomes = <<"timeout", "timeout", "timeout">>
    /\ lastCall.calls = 3 /\ lastCall.attempts = <<1, 2, 3>>

=============================================================================
